---- MODULE Spec2Model ----
(***************************************************************************)
(* fingertrack: the hand engine (src/hand.py), its two detectors           *)
(* (src/detector.py), the sinks (src/consumer.py) and the frame loop       *)
(* (src/app.py).                                                           *)
(*                                                                         *)
(* Coordinates are integers in units of 1/80 of the normalized image, so   *)
(* the swipe threshold 0.1 and the finger/wrist guard 0.1 are both 8.      *)
(* The landmark source places landmarks on multiples of 5 units, that is   *)
(* on sixteenths of the image, which Python's floats hold and subtract     *)
(* exactly: the integer arithmetic here is the arithmetic of the code.     *)
(* A landmark list carries only the landmarks the code reads.              *)
(* Python's None is the string "None" where a gesture is expected, NoHand  *)
(* where a Hand is expected and the empty sequence where the hands of an   *)
(* event are expected (an event that is built holds at least one hand).    *)
(***************************************************************************)
EXTENDS Integers, Sequences, FiniteSets, TLC

VARIABLES
    fd_buffer_size,  \* FingersDetector.buffer_size
    fd_history,      \* FingersDetector.history: label -> deque of finger tuples
    gd_buffer_size,  \* SwipeGestureDetector.buffer_size
    gd_history,      \* SwipeGestureDetector.history: label -> deque of (x, y)
    gd_threshold,    \* SwipeGestureDetector.threshold
    frame_skip,      \* args.frame_skip, the stride main was started with
    last_hand,       \* HandEngine.last_hand: label -> Hand or None
    consumers,       \* HandEngine.consumers, in registration order
    running,         \* the frame loop of main is still calling process_frame
    op,              \* the operation that produced this state
    hands_data,      \* what HandTracker.detect returned for the latest frame
    hand_event,      \* HandEvent.hands built by the latest process_frame, <<>> if none
    any_change,      \* the local any_change of the latest process_frame
    consumed,        \* indices of the sinks whose consume was called, in call order
    raised,          \* index of the sink whose consume raised, 0 when none did
    last_consumed,   \* per sink: hands of the latest event passed to its consume
    ret,             \* the call made directly: label, input, return value
    log              \* the frames or direct calls so far, where a run keeps them

vars == <<fd_buffer_size, fd_history, gd_buffer_size, gd_history, gd_threshold,
          frame_skip, last_hand, consumers, running, op, hands_data, hand_event,
          any_change, consumed, raised, last_consumed, ret, log>>

----------------------------------------------------------------------------
(* Bounds of the model *)

\* number of hand shapes shown to a FingersDetector that is driven directly
NumShapes == 3

\* wrist positions lie on a (MaxCoord+1) x (MaxCoord+1) grid
MaxCoord == 2

\* largest buffer_size of a SwipeGestureDetector that is driven directly
MaxBufferSize == 3

\* direct calls of SwipeGestureDetector.process_hand in a run that keeps them
MaxPushes == 6

\* frames of a run of the engine that keeps them
MaxFrames == 10

\* direct calls of a pure function in a run that keeps them
MaxCalls == 2

\* largest --frame-skip main is started with
MaxFrameSkip == 3

\* frames of a run started with a stride
MaxSkipFrames == 4

\* direct calls of FingersDetector.process_hand in a run that keeps them
MaxFingerPushes == 11

\* direct calls of both detectors in a run that keeps them
MaxWindowCalls == 4

(* Program constants *)

\* FingersDetector(buffer_size=5)
FingersBufferSize == 5

\* SwipeGestureDetector(buffer_size=5, ...)
SwipeBufferSize == 5

\* SwipeGestureDetector(..., threshold=0.1), in units of 1/80
Threshold == 8

\* the 0.1 of abs(tip.y - wrist.y) > 0.1, in units of 1/80
WristGuard == 8

\* HandTracker(max_hands=2)
MaxHands == 2

\* --frame-skip, default=1
FrameSkip == 1

None == "None"

\* None in HandEngine.last_hand
NoHand == [stable_fingers |-> <<>>, gesture |-> None]

\* no detector call was made directly
NoCall == [label |-> None, landmarks |-> None, value |-> None]

HandLabel == {"Left", "Right"}

Abs(n) == IF n < 0 THEN -n ELSE n

----------------------------------------------------------------------------
(* Landmarks *)

\* the landmark indices the detectors read
LandmarkIds == {0, 3, 4, 5, 6, 8, 9, 10, 12, 13, 14, 16, 17, 18, 20}

\* bit k (1..5) of a shape number: thumb tip left of its joint, then
\* index, middle, ring, pinky held straight up
ShapeBit(s, k) == (s \div (2 ^ (k - 1))) % 2

\* shape numbers shown by the landmark source: 0 (closed), 31 (open), 30, ...
ShapeNo(i) == (31 * i) % 32

Shapes == {ShapeNo(i) : i \in 0 .. (NumShapes - 1)}

\* the i-th grid line: i sixteenths of the image
Grid(i) == 5 * i

\* a hand of shape s with its wrist at w = <<x, y>>; an extended finger
\* has its base, joint and tip 1, 2 and 4 grid lines above the wrist, a
\* folded one has its tip back below the joint
MakeLandmarks(s, w) ==
    [landmark |->
        [id \in LandmarkIds |->
            IF id = 0 THEN [x |-> w[1], y |-> w[2]]
            ELSE IF id = 3 THEN [x |-> w[1], y |-> w[2] - Grid(1)]
            ELSE IF id = 4
                THEN [x |-> IF ShapeBit(s, 1) = 1 THEN w[1] - Grid(1) ELSE w[1] + Grid(1),
                      y |-> w[2] - Grid(1)]
            ELSE LET f == (id + 3) \div 4      \* 5,6,8 -> 2; 9,10,12 -> 3; ...
                     j == id - (4 * f - 3)     \* 0 mcp, 1 pip, 3 tip
                 IN  IF ShapeBit(s, f) = 1
                        THEN [x |-> w[1], y |-> w[2] - Grid(j + 1)]
                        ELSE [x |-> w[1],
                              y |-> IF j = 1 THEN w[2] - Grid(2) ELSE w[2] - Grid(1)]]]

WristXs == {Grid(i) : i \in 1 .. (1 + MaxCoord)}
WristYs == {Grid(i) : i \in 4 .. (4 + MaxCoord)}
Wrists == WristXs \X WristYs

\* the wrist position the i-th shape is shown at by the engine's landmark source
PoseWrist(i) == <<Grid(1 + ((2 * i) % 3)), Grid(4 + (i % 3))>>

\* the i-th hand the engine's landmark source shows
Pose(i) == MakeLandmarks(ShapeNo(i), PoseWrist(i))

----------------------------------------------------------------------------
(* collections.deque(maxlen=...) *)

\* a deque that never evicts
DequeAppendUnbounded(d, x, maxlen) == Append(d, x)

\* a full buffer that refuses the new value instead of evicting the oldest
DequeAppendKeepOldest(d, x, maxlen) == IF Len(d) < maxlen THEN Append(d, x) ELSE d

DequeAppend(d, x, maxlen) ==
    IF maxlen = 0 THEN d
    ELSE IF Len(d) < maxlen THEN Append(d, x)
    ELSE Append(Tail(d), x)

Range(d) == {d[i] : i \in 1 .. Len(d)}

Count(d, v) == Cardinality({i \in 1 .. Len(d) : d[i] = v})

----------------------------------------------------------------------------
(* FingersDetector *)

fingers_up(landmarks, hand_label) ==
    LET landmark == landmarks.landmark
        thumb == IF hand_label = "Right"
                    THEN (IF landmark[4].x < landmark[3].x THEN 1 ELSE 0)
                    ELSE (IF landmark[4].x > landmark[3].x THEN 1 ELSE 0)
        finger(tip_id) ==
            LET tip == landmark[tip_id]
                pip == landmark[tip_id - 2]
                mcp == landmark[tip_id - 3]
                wrist == landmark[0]
            IN  IF tip.y < pip.y /\ pip.y < mcp.y /\ Abs(tip.y - wrist.y) > WristGuard
                   THEN 1 ELSE 0
    IN  <<thumb, finger(8), finger(12), finger(16), finger(20)>>

\* the vector just pushed instead of the most frequent one
MostRecent(history) == {history[Len(history)]}

\* max(set(history), key=history.count): the values max may return. Which
\* of several most frequent values comes first in the set's iteration order
\* is not fixed by the code, so every one of them is a possible result.
MostFrequent(history) ==
    {v \in Range(history) : \A w \in Range(history) : Count(history, v) >= Count(history, w)}

\* the vote taken over the window before the oldest entry is evicted
FingersProcessHandUntrimmed(history, buffer_size, landmarks, hand_label) ==
    LET fingers == fingers_up(landmarks, hand_label)
        h == [history EXCEPT ![hand_label] = DequeAppend(@, fingers, buffer_size)]
    IN  [history |-> h, stable_fingers |-> MostFrequent(Append(history[hand_label], fingers))]

\* one finger history kept for both labels
FingersProcessHandShared(history, buffer_size, landmarks, hand_label) ==
    LET fingers == fingers_up(landmarks, hand_label)
        h == [l \in DOMAIN history |-> DequeAppend(history[l], fingers, buffer_size)]
    IN  [history |-> h, stable_fingers |-> MostFrequent(h[hand_label])]

\* FingersDetector.process_hand: the history after the append, and the
\* values the call may return
FingersProcessHand(history, buffer_size, landmarks, hand_label) ==
    LET fingers == fingers_up(landmarks, hand_label)
        h == [history EXCEPT ![hand_label] = DequeAppend(@, fingers, buffer_size)]
    IN  [history |-> h, stable_fingers |-> MostFrequent(h[hand_label])]

----------------------------------------------------------------------------
(* SwipeGestureDetector *)

\* the horizontal test taken at the tie |dx| = |dy| as well
SwipeClassifyTieHorizontal(h, buffer_size, threshold) ==
    IF Len(h) < buffer_size THEN None
    ELSE LET dx == h[Len(h)][1] - h[1][1]
             dy == h[Len(h)][2] - h[1][2]
         IN  IF Abs(dx) >= Abs(dy)
                THEN (IF Abs(dx) > threshold
                         THEN (IF dx > 0 THEN "swipe_right" ELSE "swipe_left")
                         ELSE None)
                ELSE (IF Abs(dy) > threshold
                         THEN (IF dy > 0 THEN "swipe_down" ELSE "swipe_up")
                         ELSE None)

\* the vertical direction read with the y axis pointing up
SwipeClassifyFlipped(h, buffer_size, threshold) ==
    IF Len(h) < buffer_size THEN None
    ELSE LET dx == h[Len(h)][1] - h[1][1]
             dy == h[Len(h)][2] - h[1][2]
         IN  IF Abs(dx) > Abs(dy)
                THEN (IF Abs(dx) > threshold
                         THEN (IF dx > 0 THEN "swipe_right" ELSE "swipe_left")
                         ELSE None)
                ELSE (IF Abs(dy) > threshold
                         THEN (IF dy > 0 THEN "swipe_up" ELSE "swipe_down")
                         ELSE None)

\* the part of process_hand after the append; with buffer_size 0 the deque
\* stays empty and self.history[hand_label][0] raises IndexError
SwipeClassify(h, buffer_size, threshold) ==
    IF Len(h) < buffer_size THEN None
    ELSE IF Len(h) = 0 THEN "IndexError"
    ELSE LET x0 == h[1][1]
             y0 == h[1][2]
             x1 == h[Len(h)][1]
             y1 == h[Len(h)][2]
             dx == x1 - x0
             dy == y1 - y0
         IN  IF Abs(dx) > Abs(dy)
                THEN (IF Abs(dx) > threshold
                         THEN (IF dx > 0 THEN "swipe_right" ELSE "swipe_left")
                         ELSE None)
                ELSE (IF Abs(dy) > threshold
                         THEN (IF dy > 0 THEN "swipe_down" ELSE "swipe_up")
                         ELSE None)

\* one wrist history kept for both labels
SwipeProcessHandShared(history, buffer_size, threshold, landmarks, hand_label) ==
    LET wrist == landmarks.landmark[0]
        h == [l \in DOMAIN history |->
                 DequeAppend(history[l], <<wrist.x, wrist.y>>, buffer_size)]
    IN  [history |-> h, gesture |-> SwipeClassify(h[hand_label], buffer_size, threshold)]

\* SwipeGestureDetector.process_hand: the history after the append, and the
\* gesture returned
SwipeProcessHand(history, buffer_size, threshold, landmarks, hand_label) ==
    LET wrist == landmarks.landmark[0]
        h == [history EXCEPT ![hand_label] = DequeAppend(@, <<wrist.x, wrist.y>>, buffer_size)]
    IN  [history |-> h, gesture |-> SwipeClassify(h[hand_label], buffer_size, threshold)]

----------------------------------------------------------------------------
(* Sinks *)

\* BaseConsumer.always_consume, overridden by OpenCVWindowConsumer only
always_consume(consumer) == consumer.kind = "window"

\* consume raises out of the sink: HttpConsumer catches the request error
\* inside consume; StdoutConsumer (print to a closed pipe) and
\* OpenCVWindowConsumer (an OpenCV error) let it propagate
ConsumeRaises(consumer, outcome) == outcome = "error" /\ consumer.kind # "http"

\* gesture_map of OpenCVWindowConsumer.classify_gesture
gesture_map ==
    (<<0, 1, 0, 0, 0>> :> "Pointing (Index)")
    @@ (<<0, 1, 1, 0, 0>> :> "Victory Sign")
    @@ (<<0, 1, 1, 1, 0>> :> "Three-Finger Salute")
    @@ (<<0, 1, 0, 0, 1>> :> "Horns")
    @@ (<<1, 1, 0, 0, 1>> :> "I love you")
    @@ (<<0, 0, 1, 0, 0>> :> "Rude!!!")
    @@ (<<0, 0, 0, 0, 0>> :> "Fist")
    @@ (<<1, 0, 0, 0, 0>> :> "Thumbs Up")
    @@ (<<1, 1, 1, 1, 1>> :> "Open Palm")
    @@ (<<1, 0, 0, 0, 1>> :> "Shaka Sign")

\* sum(fingers)
RECURSIVE Sum(_)
Sum(fingers) == IF fingers = <<>> THEN 0 ELSE Head(fingers) + Sum(Tail(fingers))

\* the fallback naming the length of the vector instead of its sum
classify_gesture_len(fingers) ==
    IF fingers \in DOMAIN gesture_map THEN gesture_map[fingers]
    ELSE ToString(Len(fingers)) \o " fingers"

\* OpenCVWindowConsumer.classify_gesture
classify_gesture(fingers) ==
    IF fingers \in DOMAIN gesture_map THEN gesture_map[fingers]
    ELSE ToString(Sum(fingers)) \o " fingers"

\* get_consumers(args)
get_consumers(show_window, consumer) ==
    (IF show_window THEN <<[kind |-> "window"]>> ELSE <<>>)
    \o (IF consumer = "http" THEN <<[kind |-> "http"]>> ELSE <<[kind |-> "stdout"]>>)

----------------------------------------------------------------------------
(* HandEngine *)

Hand(stable_fingers, gesture) == [stable_fingers |-> stable_fingers, gesture |-> gesture]

HandState(label, stable_fingers, gesture, landmarks) ==
    [label |-> label, stable_fingers |-> stable_fingers, gesture |-> gesture,
     landmarks |-> landmarks]

\* str.lower on a hand label
Lower(label) ==
    IF label = "Left" THEN "left" ELSE IF label = "Right" THEN "right" ELSE label

\* the dictionary of the earlier HandState, label kept as it is and no gesture
HandState_to_dict_old(hs) == [label |-> hs.label, stable_fingers |-> hs.stable_fingers]

\* HandState.to_dict
HandState_to_dict(hs) ==
    [label |-> Lower(hs.label), fingers |-> hs.stable_fingers, gesture |-> hs.gesture]

\* HandEvent.to_dict, hands being HandEvent.hands
HandEvent_to_dict(hands) ==
    [hands |-> [k \in 1 .. Len(hands) |-> HandState_to_dict(hands[k])]]

\* the Last-Known State left as it was
HandStepStale(st, landmarks, hand_label) ==
    LET f == FingersProcessHand(st.fd_history, fd_buffer_size, landmarks, hand_label)
        g == SwipeProcessHand(st.gd_history, gd_buffer_size, gd_threshold, landmarks, hand_label)
    IN  {[fd_history |-> f.history,
          gd_history |-> g.history,
          hands      |-> Append(st.hands,
                                HandState(hand_label, stable_fingers, g.gesture, landmarks)),
          any_change |-> st.any_change
                         \/ (st.last_hand[hand_label] # Hand(stable_fingers, g.gesture)),
          last_hand  |-> st.last_hand]
         : stable_fingers \in f.stable_fingers}

\* one pass of the loop "for landmarks, hand_label in hands_data": the
\* states it may end in, one for each value max may return in
\* FingersDetector.process_hand
HandStep(st, landmarks, hand_label) ==
    LET f == FingersProcessHand(st.fd_history, fd_buffer_size, landmarks, hand_label)
        g == SwipeProcessHand(st.gd_history, gd_buffer_size, gd_threshold, landmarks, hand_label)
    IN  {[fd_history |-> f.history,
          gd_history |-> g.history,
          hands      |-> Append(st.hands,
                                HandState(hand_label, stable_fingers, g.gesture, landmarks)),
          any_change |-> st.any_change
                         \/ (st.last_hand[hand_label] # Hand(stable_fingers, g.gesture)),
          last_hand  |-> [st.last_hand EXCEPT ![hand_label] =
                                                 Hand(stable_fingers, g.gesture)]]
         : stable_fingers \in f.stable_fingers}

\* the loop over hands_data from its i-th pair on
RECURSIVE HandLoop(_, _, _)
HandLoop(sts, data, i) ==
    IF i > Len(data) THEN sts
    ELSE HandLoop(UNION {HandStep(st, data[i][1], data[i][2]) : st \in sts}, data, i + 1)

\* the sinks the dispatch loop selects, last registered first
SelectedReversed(cs, change) ==
    LET sel == SelectSeq([i \in 1 .. Len(cs) |-> i], LAMBDA i : always_consume(cs[i]) \/ change)
    IN  [k \in 1 .. Len(sel) |-> sel[Len(sel) + 1 - k]]

\* the sinks the dispatch loop selects, in registration order
Selected(cs, change) ==
    SelectSeq([i \in 1 .. Len(cs) |-> i], LAMBDA i : always_consume(cs[i]) \/ change)

\* the first selected sink whose consume raises, 0 when none does
FirstRaising(cs, sel, outcomes) ==
    LET bad == {k \in 1 .. Len(sel) : ConsumeRaises(cs[sel[k]], outcomes[sel[k]])}
    IN  IF bad = {} THEN 0
        ELSE sel[CHOOSE k \in bad : \A m \in bad : k <= m]

\* the sinks whose consume is called: the loop stops at the sink that raises
Called(sel, r) == SelectSeq(sel, LAMBDA i : r = 0 \/ i <= r)

\* the Last-Known State forgotten when the hands leave the image
DroppedFrameReset ==
    /\ last_hand' = [l \in HandLabel |-> NoHand]
    /\ UNCHANGED <<fd_history, gd_history, running>>

\* the early return of process_frame: nothing of the engine or of the
\* detectors is touched
DroppedFrame == UNCHANGED <<fd_history, gd_history, last_hand, running>>

\* process_frame without its early return
NoHandsIgnored(data) == FALSE

\* "if not hands_data: return"
NoHands(data) == data = <<>>

\* HandEngine.process_frame, called by the loop of main; data is what
\* hand_tracker.detect(frame) returns, outcomes what each sink's I/O does
process_frame(data, outcomes) ==
    /\ running
    /\ op' = "process_frame"
    /\ hands_data' = data
    /\ UNCHANGED <<fd_buffer_size, gd_buffer_size, gd_threshold, frame_skip, consumers, ret>>
    /\ IF NoHands(data)
          THEN /\ hand_event' = <<>>
               /\ any_change' = FALSE
               /\ consumed' = <<>>
               /\ raised' = 0
               /\ DroppedFrame
          ELSE \E st \in HandLoop({[fd_history |-> fd_history, gd_history |-> gd_history,
                                      hands |-> <<>>, any_change |-> FALSE,
                                      last_hand |-> last_hand]}, data, 1) :
               LET sel == Selected(consumers, st.any_change)
                   r   == FirstRaising(consumers, sel, outcomes)
               IN  /\ fd_history' = st.fd_history
                   /\ gd_history' = st.gd_history
                   /\ last_hand' = st.last_hand
                   /\ hand_event' = st.hands
                   /\ any_change' = st.any_change
                   /\ consumed' = Called(sel, r)
                   /\ raised' = r
                   \* main: the exception leaves the while loop and the process exits
                   /\ running' = (r = 0)

\* the record of what each sink was last given, kept for the claims about
\* a sink's stream
RecordConsumed ==
    last_consumed' = [i \in DOMAIN last_consumed |->
                         IF i \in Range(consumed') THEN hand_event' ELSE last_consumed[i]]

----------------------------------------------------------------------------
(* The landmark source and the frame loop *)

\* the hands the landmark source shows to the engine: a left hand held
\* still and a right hand that changes shape and place
Detections == {<<Pose(0), "Left">>, <<Pose(0), "Right">>, <<Pose(1), "Right">>}

\* HandTracker.detect: at most max_hands (landmarks, label) pairs
Frames == UNION {[1 .. n -> Detections] : n \in 0 .. MaxHands}

Outcomes == {"ok", "error"}

\* the state after construction: a FingersDetector, a SwipeGestureDetector
\* and the engine's own fields, in a process started with the given stride
ConstructedAs(fd_size, gd_size, threshold, stride, cs) ==
    /\ fd_buffer_size = fd_size
    /\ gd_buffer_size = gd_size
    /\ gd_threshold = threshold
    /\ frame_skip = stride
    /\ fd_history = [l \in HandLabel |-> <<>>]
    /\ gd_history = [l \in HandLabel |-> <<>>]
    /\ last_hand = [l \in HandLabel |-> NoHand]
    /\ consumers = cs
    /\ running = TRUE
    /\ op = "init"
    /\ hands_data = <<>>
    /\ hand_event = <<>>
    /\ any_change = FALSE
    /\ consumed = <<>>
    /\ raised = 0
    /\ last_consumed = [i \in 1 .. Len(cs) |-> <<>>]
    /\ ret = NoCall
    /\ log = <<>>

\* the same with SwipeGestureDetector's default threshold and the default stride
Constructed(fd_size, gd_size, cs) ==
    ConstructedAs(fd_size, gd_size, Threshold, FrameSkip, cs)

\* HandEngine.__init__ as src/hand.py has it, detectors with their default
\* arguments, with the consumers main passes
Init ==
    \E show_window \in BOOLEAN, consumer \in {"stdout", "http"} :
        Constructed(FingersBufferSize, SwipeBufferSize, get_consumers(show_window, consumer))

\* one iteration of the while loop of main
FrameLoop ==
    \E data \in Frames :
        \E outcomes \in [1 .. Len(consumers) -> Outcomes] :
            process_frame(data, outcomes) /\ UNCHANGED <<last_consumed, log>>

Next == FrameLoop

Spec == Init /\ [][Next]_vars

\* the frame loop with the record of each sink's stream
FrameLoopRecorded ==
    \E data \in Frames :
        \E outcomes \in [1 .. Len(consumers) -> Outcomes] :
            process_frame(data, outcomes) /\ RecordConsumed /\ UNCHANGED log

\* the frame loop of main run with --show-window and the stdout consumer
StreamInit == Constructed(FingersBufferSize, SwipeBufferSize, get_consumers(TRUE, "stdout"))

SpecStream == StreamInit /\ [][FrameLoopRecorded]_vars

----------------------------------------------------------------------------
(* The detectors driven directly, one hand label per run *)

OnlyLabel(history, hand_label) == \A l \in HandLabel \ {hand_label} : history[l] = <<>>

\* a call of FingersDetector.process_hand; with buffer_size 0 the deque
\* stays empty and max() of the empty set raises ValueError
fd_process_hand(landmarks, hand_label) ==
    LET r == FingersProcessHand(fd_history, fd_buffer_size, landmarks, hand_label)
    IN  /\ fd_history' = r.history
        /\ IF r.stable_fingers = {}
              THEN ret' = [label |-> hand_label, landmarks |-> landmarks,
                           value |-> "ValueError"]
              ELSE \E stable_fingers \in r.stable_fingers :
                      ret' = [label |-> hand_label, landmarks |-> landmarks,
                              value |-> stable_fingers]
        /\ op' = "fd_process_hand"
        /\ UNCHANGED <<fd_buffer_size, gd_buffer_size, gd_history, gd_threshold, frame_skip,
                       last_hand, consumers, running, hands_data, hand_event, any_change,
                       consumed, raised, last_consumed>>

\* a call of SwipeGestureDetector.process_hand
gd_process_hand(landmarks, hand_label) ==
    LET r == SwipeProcessHand(gd_history, gd_buffer_size, gd_threshold, landmarks, hand_label)
    IN  /\ gd_history' = r.history
        /\ ret' = [label |-> hand_label, landmarks |-> landmarks, value |-> r.gesture]
        /\ op' = "gd_process_hand"
        /\ UNCHANGED <<fd_buffer_size, gd_buffer_size, fd_history, gd_threshold, frame_skip,
                       last_hand, consumers, running, hands_data, hand_event, any_change,
                       consumed, raised, last_consumed>>

\* hands of every shape, the wrist at one place
ShapeInputs == {MakeLandmarks(s, <<Grid(1), Grid(4)>>) : s \in Shapes}

\* hands of one shape, the wrist at every place of the grid
WristInputs == {MakeLandmarks(0, w) : w \in Wrists}

FingersInit ==
    \E n \in 1 .. FingersBufferSize : Constructed(n, SwipeBufferSize, <<>>)

FingersCalls ==
    \E landmarks \in ShapeInputs, hand_label \in HandLabel :
        OnlyLabel(fd_history, hand_label) /\ fd_process_hand(landmarks, hand_label)
            /\ UNCHANGED log

SpecFingers == FingersInit /\ [][FingersCalls]_vars

SwipeInit ==
    \E n \in 1 .. MaxBufferSize : Constructed(FingersBufferSize, n, <<>>)

SwipeCalls ==
    \E landmarks \in WristInputs, hand_label \in HandLabel :
        OnlyLabel(gd_history, hand_label) /\ gd_process_hand(landmarks, hand_label)
            /\ UNCHANGED log

SpecSwipe == SwipeInit /\ [][SwipeCalls]_vars

----------------------------------------------------------------------------
(* Runs that keep what was done *)

\* the direct call just made, added to the log
RecordCall == log' = Append(log, ret')

\* the frame just processed, added to the log
RecordFrame ==
    log' = Append(log, [hands_data |-> hands_data', hand_event |-> hand_event',
                        any_change |-> any_change', consumed |-> consumed'])

\* a hand at one side of the image and at the opposite corner
FarInputs == {MakeLandmarks(0, <<Grid(1), Grid(4)>>), MakeLandmarks(0, <<Grid(4), Grid(8)>>)}

\* SwipeGestureDetector.process_hand called for both labels in any order
SwipePairsCalls ==
    \E landmarks \in FarInputs, hand_label \in HandLabel :
        Len(log) < MaxPushes /\ gd_process_hand(landmarks, hand_label) /\ RecordCall

SpecSwipePairs == SwipeInit /\ [][SwipePairsCalls]_vars

\* the input of the direct call just made, added to the log
RecordInput == log' = Append(log, [label |-> ret'.label, landmarks |-> ret'.landmarks])

\* an open hand and a fist at the same place
DebounceInputs ==
    {MakeLandmarks(31, <<Grid(1), Grid(4)>>), MakeLandmarks(0, <<Grid(1), Grid(4)>>)}

\* FingersDetector.process_hand called for one label, open hand or fist
DebounceCalls ==
    \E landmarks \in DebounceInputs, hand_label \in HandLabel :
        /\ Len(log) < MaxFingerPushes
        /\ OnlyLabel(fd_history, hand_label)
        /\ fd_process_hand(landmarks, hand_label)
        /\ RecordInput

SpecDebounce == FingersInit /\ [][DebounceCalls]_vars

\* the direct call just made and its input, added to the log
RecordOp ==
    log' = Append(log, [op |-> op', label |-> ret'.label, landmarks |-> ret'.landmarks])

\* both detectors constructed with the same buffer_size
WindowsInit ==
    \E n \in 1 .. MaxBufferSize : Constructed(n, n, <<>>)

WindowsFingersCalls ==
    \E landmarks \in DebounceInputs, hand_label \in HandLabel :
        Len(log) < MaxWindowCalls /\ fd_process_hand(landmarks, hand_label) /\ RecordOp

WindowsSwipeCalls ==
    \E landmarks \in FarInputs, hand_label \in HandLabel :
        Len(log) < MaxWindowCalls /\ gd_process_hand(landmarks, hand_label) /\ RecordOp

\* the two detectors called for both labels in any order
WindowsCalls == WindowsFingersCalls \/ WindowsSwipeCalls

SpecWindows == WindowsInit /\ [][WindowsCalls]_vars

\* what the landmark source reports for one right hand of shape s, the
\* wrist always at the same place
ScenarioFrame(s) == <<<<MakeLandmarks(s, <<Grid(1), Grid(4)>>), "Right">>>>

\* the frame loop fed one right hand per frame, open or closed, the sinks'
\* I/O succeeding
ScenarioLoop ==
    \E s \in {31, 0} :
        /\ Len(log) < MaxFrames
        /\ process_frame(ScenarioFrame(s), [i \in 1 .. Len(consumers) |-> "ok"])
        /\ RecordFrame
        /\ UNCHANGED last_consumed

SpecScenario == StreamInit /\ [][ScenarioLoop]_vars

\* every vector of five 0/1 flags
FingerVectors ==
    {<<a, b, c, d, e>> : a \in {0, 1}, b \in {0, 1}, c \in {0, 1}, d \in {0, 1}, e \in {0, 1}}

\* a call of OpenCVWindowConsumer.classify_gesture
classify_gesture_call(fingers) ==
    /\ ret' = [label |-> None, landmarks |-> fingers, value |-> classify_gesture(fingers)]
    /\ op' = "classify_gesture"
    /\ UNCHANGED <<fd_buffer_size, fd_history, gd_buffer_size, gd_history, gd_threshold,
                   frame_skip, last_hand, consumers, running, hands_data, hand_event,
                   any_change, consumed, raised, last_consumed>>

\* the window consumer naming one vector after another
NamerCalls ==
    \E fingers \in FingerVectors :
        Len(log) < MaxCalls /\ classify_gesture_call(fingers) /\ RecordCall

SpecNamer == StreamInit /\ [][NamerCalls]_vars

\* a right hand, and the hands that differ from it in the label, in the
\* finger vector or in the gesture alone
SampleHands ==
    {HandState("Right", <<1, 1, 1, 1, 1>>, None, None),
     HandState("Left", <<1, 1, 1, 1, 1>>, None, None),
     HandState("Right", <<1, 1, 0, 1, 1>>, None, None),
     HandState("Right", <<1, 1, 1, 1, 1>>, "swipe_left", None)}

\* the events of at most max_hands such hands
SampleEvents == UNION {[1 .. n -> SampleHands] : n \in 0 .. MaxHands}

\* a call of HandEvent.to_dict
to_dict_call(hands) ==
    /\ ret' = [label |-> None, landmarks |-> hands, value |-> HandEvent_to_dict(hands)]
    /\ op' = "to_dict"
    /\ UNCHANGED <<fd_buffer_size, fd_history, gd_buffer_size, gd_history, gd_threshold,
                   frame_skip, last_hand, consumers, running, hands_data, hand_event,
                   any_change, consumed, raised, last_consumed>>

\* a sink serializing one event after another
ToDictCalls ==
    \E hands \in SampleEvents :
        Len(log) < MaxCalls /\ to_dict_call(hands) /\ RecordCall

SpecToDict == StreamInit /\ [][ToDictCalls]_vars

\* the detectors constructed with a buffer_size of 0 or 1 and with the
\* default threshold or its negative: the constructors store what they are
\* given (a negative buffer_size alone is refused, by deque(maxlen=...))
ConfigInit ==
    \E fd_size \in 0 .. 1, gd_size \in 0 .. 1, threshold \in {-Threshold, Threshold} :
        ConstructedAs(fd_size, gd_size, threshold, FrameSkip, <<>>)

ConfigFingersCalls ==
    \E landmarks \in ShapeInputs, hand_label \in HandLabel :
        fd_process_hand(landmarks, hand_label) /\ UNCHANGED log

ConfigSwipeCalls ==
    \E landmarks \in FarInputs, hand_label \in HandLabel :
        gd_process_hand(landmarks, hand_label) /\ UNCHANGED log

ConfigCalls == ConfigFingersCalls \/ ConfigSwipeCalls

SpecConfig == ConfigInit /\ [][ConfigCalls]_vars

\* main started with --frame-skip n and the stdout consumer. The engine is
\* the one src/hand.py constructs: its __init__ takes the consumers only and
\* keeps no stride and no frame counter, so the stride stays with main.
SkipInit ==
    \E n \in 1 .. MaxFrameSkip :
        ConstructedAs(FingersBufferSize, SwipeBufferSize, Threshold, n,
                      get_consumers(FALSE, "stdout"))

\* what the landmark source reports: no hand, or one right hand
SkipFrames == {<<>>} \cup {<<d>> : d \in {e \in Detections : e[2] = "Right"}}

\* the frame loop of main, every frame read handed to process_frame
SkipLoop ==
    \E data \in SkipFrames :
        \E outcomes \in [1 .. Len(consumers) -> Outcomes] :
            /\ Len(log) < MaxSkipFrames
            /\ process_frame(data, outcomes)
            /\ RecordFrame
            /\ UNCHANGED last_consumed

SpecSkip == SkipInit /\ [][SkipLoop]_vars

----------------------------------------------------------------------------
(* Vocabulary of the claims *)

Sinks == 1 .. Len(consumers)

\* a frame with at least one hand went through process_frame in this state
FrameProcessed == op = "process_frame" /\ hands_data # <<>>

\* the dispatch rule selects sink i for the latest frame
Wanted(i) == always_consume(consumers[i]) \/ any_change

\* consume of sink i was called with the latest frame's event
Got(i) == i \in Range(consumed)

\* the (stable_fingers, gesture) pair of a HandState
PairOf(hs) == Hand(hs.stable_fingers, hs.gesture)

\* some hand of the event differs from the Last-Known State of its label at
\* the moment it is processed: the state the frame started with, or the
\* pair of the latest earlier hand of the frame with the same label
SomeHandChanged(known, hands) ==
    \E k \in 1 .. Len(hands) :
        LET earlier == {j \in 1 .. (k - 1) : hands[j].label = hands[k].label}
            before  == IF earlier = {} THEN known[hands[k].label]
                       ELSE PairOf(hands[CHOOSE j \in earlier : \A m \in earlier : m <= j])
        IN  before # PairOf(hands[k])

\* the pairs an event holds for one label, in event order
PairsOf(hands, l) ==
    LET own == SelectSeq(hands, LAMBDA hs : hs.label = l)
    IN  [k \in 1 .. Len(own) |-> PairOf(own[k])]

\* every present label has the same values in both events
SameValues(e1, e2) == \A l \in HandLabel : PairsOf(e1, l) = PairsOf(e2, l)

\* the (label, stable_fingers, gesture) sequence of an event
Triples(hands) ==
    [k \in 1 .. Len(hands) |-> <<hands[k].label, hands[k].stable_fingers, hands[k].gesture>>]

\* no label occurs twice among the hands
DistinctLabels(hands) ==
    \A j, k \in 1 .. Len(hands) : hands[j].label = hands[k].label => j = k

\* the label's history right after the direct detector call
FdBuffer == fd_history[ret.label]
GdBuffer == gd_history[ret.label]

\* displacement from the oldest to the newest wrist sample
Dx == GdBuffer[Len(GdBuffer)][1] - GdBuffer[1][1]
Dy == GdBuffer[Len(GdBuffer)][2] - GdBuffer[1][2]

SwipeFull == op = "gd_process_hand" /\ Len(GdBuffer) = gd_buffer_size

\* the logged direct calls made for a label
CallsFor(l) == SelectSeq(log, LAMBDA c : c.label = l)

\* the raw finger vector of the first hand of the k-th logged frame
Raw(k) == fingers_up(log[k].hands_data[1][1], log[k].hands_data[1][2])

\* the stable finger vector of the first hand of the k-th logged frame
Stable(k) == log[k].hand_event[1].stable_fingers

Open == <<1, 1, 1, 1, 1>>
Fist == <<0, 0, 0, 0, 0>>

\* ten frames were processed: an open hand on frames 1-5, a fist on 6-10
PalmThenFist ==
    /\ Len(log) = 10
    /\ \A k \in 1 .. 5 : Raw(k) = Open
    /\ \A k \in 6 .. 10 : Raw(k) = Fist

\* detection ran on the k-th logged frame and its hands were pushed
Detected(k) == log[k].hand_event # <<>>

\* the number of extended fingers of a vector
Popcount(v) == Cardinality({i \in DOMAIN v : v[i] = 1})

\* the hand label a serialized label is read back as
ReadLabel(l) == IF l = "left" THEN "Left" ELSE IF l = "right" THEN "Right" ELSE None

\* a serialized event read back as (label, stable_fingers, gesture) triples
ReadBack(d) ==
    [k \in 1 .. Len(d.hands) |->
        <<ReadLabel(d.hands[k].label), d.hands[k].fingers, d.hands[k].gesture>>]

\* the labels the landmark source reported for a frame
LabelsOf(data) == {data[k][2] : k \in 1 .. Len(data)}

\* the last hand of an event that carries the label
LatestOf(hands, l) ==
    hands[CHOOSE k \in 1 .. Len(hands) :
             /\ hands[k].label = l
             /\ \A m \in 1 .. Len(hands) : hands[m].label = l => m <= k]

\* the raw finger vector of the k-th logged call
RawOf(k) == fingers_up(log[k].landmarks, log[k].label)

\* the m-th logged call pushed a single misread: the buffer_size calls
\* before it pushed one vector, it pushed another, and every call after it
\* pushed the first vector again
Misread(m) ==
    /\ m > fd_buffer_size /\ m <= Len(log)
    /\ \A k \in (m - fd_buffer_size) .. (m - 1) : RawOf(k) = RawOf(m - 1)
    /\ RawOf(m) # RawOf(m - 1)
    /\ \A k \in (m + 1) .. Len(log) : RawOf(k) = RawOf(m - 1)

\* the logged calls of one detector for one label
CallsOf(o, l) == SelectSeq(log, LAMBDA c : c.op = o /\ c.label = l)

\* the finger vectors pushed for a label so far, in arrival order
PushedFingers(l) ==
    [k \in 1 .. Len(CallsOf("fd_process_hand", l)) |->
        fingers_up(CallsOf("fd_process_hand", l)[k].landmarks, l)]

\* the wrist positions pushed for a label so far, in arrival order
PushedWrists(l) ==
    [k \in 1 .. Len(CallsOf("gd_process_hand", l)) |->
        <<CallsOf("gd_process_hand", l)[k].landmarks.landmark[0].x,
          CallsOf("gd_process_hand", l)[k].landmarks.landmark[0].y>>]

\* the last min(Len(q), n) values of a sequence
LastN(q, n) == SubSeq(q, (IF Len(q) > n THEN Len(q) - n ELSE 0) + 1, Len(q))

\* the wrist of a logged call
WristOf(c) == <<c.landmarks.landmark[0].x, c.landmarks.landmark[0].y>>

----------------------------------------------------------------------------
(* Claims *)

\* C1: on every frame with at least one hand, any_change is true exactly
\* when some hand differs from the Last-Known State of its label at the
\* moment it is processed, and each registered sink has consume called with
\* the frame's event if and only if it is always-consuming or any_change.
C1_DispatchRule ==
    [][(op' = "process_frame" /\ hands_data' # <<>>)
          => /\ any_change' = SomeHandChanged(last_hand, hand_event')
             /\ \A i \in Sinks : (i \in Range(consumed'))
                                    <=> (always_consume(consumers[i]) \/ any_change')]_vars

\* C2: when two consecutive frames with hands carry the same stable fingers
\* and gesture for every present label, the second has any_change false, an
\* always-consuming sink receives its event and another sink does not.
C2_RepeatedFrame ==
    [][(FrameProcessed /\ op' = "process_frame" /\ hands_data' # <<>>
            /\ SameValues(hand_event, hand_event'))
          => /\ any_change' = FALSE
             /\ \A i \in Sinks : (i \in Range(consumed')) <=> always_consume(consumers[i])]_vars

\* C3: a frame for which the landmark source reports no hands delivers no
\* event to any sink, always-consuming or not.
C3_NoHandsNoEvent ==
    (op = "process_frame" /\ hands_data = <<>>)
        => (hand_event = <<>> /\ \A i \in Sinks : ~Got(i))

C3_Witness ==
    /\ op = "process_frame" /\ hands_data = <<>>
    /\ \E i \in Sinks : always_consume(consumers[i])
    /\ \E l \in HandLabel : last_hand[l] # NoHand

\* C4: when a sink's consume raises, every sink registered after it that the
\* dispatch rule selects still receives the event, process_frame returns
\* normally and the frame loop goes on.
C4_FailureContained ==
    (op = "process_frame" /\ raised # 0)
        => (running /\ \A i \in Sinks : (i > raised /\ Wanted(i)) => Got(i))

\* C5: a sink that is not always-consuming never receives two consecutive
\* events with the same sequence of (label, stable_fingers, gesture).
C5_Deduplicated ==
    [][\A i \in Sinks :
          (op' = "process_frame" /\ ~always_consume(consumers[i]) /\ i \in Range(consumed'))
              => Triples(hand_event') # Triples(last_consumed[i])]_vars

\* C6: FingersDetector.process_hand pushes the vector into the label's
\* history and returns a vector that occurs in the buffer at least as often
\* as every other one; a vector holding a strict majority of the buffer is
\* the one returned, as is a vector pushed buffer_size times in a row.
C6_MostFrequentReturned ==
    op = "fd_process_hand"
        => /\ FdBuffer[Len(FdBuffer)] = fingers_up(ret.landmarks, ret.label)
           /\ \A w \in Range(FdBuffer) : Count(FdBuffer, ret.value) >= Count(FdBuffer, w)
           /\ \A v \in Range(FdBuffer) :
                 (2 * Count(FdBuffer, v) > Len(FdBuffer)) => ret.value = v
           /\ \A v \in Range(FdBuffer) :
                 (Count(FdBuffer, v) = fd_buffer_size) => ret.value = v

\* a strict majority of 3 in a full buffer of 5 that holds three different
\* vectors, the majority vector not the one just pushed
C6_Witness ==
    /\ op = "fd_process_hand"
    /\ fd_buffer_size = 5 /\ Len(FdBuffer) = 5
    /\ Count(FdBuffer, ret.value) = 3
    /\ Cardinality(Range(FdBuffer)) = 3
    /\ FdBuffer[5] # ret.value
    /\ FdBuffer[2] # ret.value

\* C7: no per-label history, of finger vectors or of wrist positions, is
\* ever longer than the buffer_size its detector was constructed with.
C7_HistoryBounded ==
    \A l \in HandLabel :
        /\ Len(fd_history[l]) <= fd_buffer_size
        /\ Len(gd_history[l]) <= gd_buffer_size

\* both histories of a label are full and the frame just pushed into them twice
C7_Witness ==
    /\ FrameProcessed
    /\ Len(hands_data) = 2 /\ hands_data[1][2] = "Right" /\ hands_data[2][2] = "Right"
    /\ Len(fd_history["Right"]) = fd_buffer_size
    /\ Len(gd_history["Right"]) = gd_buffer_size
    /\ Cardinality(Range(fd_history["Right"])) = 2

\* C8: the vector returned by FingersDetector.process_hand is a member of
\* the label's history as it stands right after the push; the first vector
\* observed for a label is returned as stable.
C8_StableInBuffer ==
    op = "fd_process_hand"
        => /\ ret.value \in Range(FdBuffer)
           /\ Len(FdBuffer) = 1 => ret.value = fingers_up(ret.landmarks, ret.label)

\* the buffer is full, holds more than one vector, and the value returned is
\* not the one just pushed
C8_Witness ==
    /\ op = "fd_process_hand"
    /\ Len(FdBuffer) = fd_buffer_size
    /\ Cardinality(Range(FdBuffer)) > 1
    /\ ret.value # FdBuffer[Len(FdBuffer)]

\* C9, as claimed: once the wrist history is full and |dx| >= |dy|, the tie
\* included, the result is swipe_right when dx > threshold, swipe_left when
\* dx < -threshold, and no gesture otherwise.
C9_HorizontalWithTie ==
    (SwipeFull /\ Abs(Dx) >= Abs(Dy))
        => ret.value = (IF Dx > Threshold THEN "swipe_right"
                        ELSE IF Dx < -Threshold THEN "swipe_left" ELSE None)

\* C9, amended: once the wrist history is full and |dx| > |dy|, the result
\* is swipe_right when dx > threshold, swipe_left when dx < -threshold, and
\* no gesture otherwise; at the tie |dx| = |dy| the vertical test decides:
\* swipe_down when dy > threshold, swipe_up when dy < -threshold, else none.
C9_HorizontalStrict ==
    /\ (SwipeFull /\ Abs(Dx) > Abs(Dy))
          => ret.value = (IF Dx > Threshold THEN "swipe_right"
                          ELSE IF Dx < -Threshold THEN "swipe_left" ELSE None)
    /\ (SwipeFull /\ Abs(Dx) = Abs(Dy))
          => ret.value = (IF Dy > Threshold THEN "swipe_down"
                          ELSE IF Dy < -Threshold THEN "swipe_up" ELSE None)

\* a leftward swipe with a smaller vertical drift, over a window of three
C9_Witness ==
    /\ SwipeFull /\ gd_buffer_size = 3
    /\ Dx < -Threshold /\ Dy # 0 /\ Abs(Dx) > Abs(Dy)
    /\ ret.value = "swipe_left"

\* C10: once the wrist history is full and |dx| < |dy|, the result is
\* swipe_down when dy > threshold, swipe_up when dy < -threshold, and no
\* gesture otherwise, never a horizontal swipe.
C10_Vertical ==
    (SwipeFull /\ Abs(Dx) < Abs(Dy))
        => /\ ret.value = (IF Dy > Threshold THEN "swipe_down"
                           ELSE IF Dy < -Threshold THEN "swipe_up" ELSE None)
           /\ ret.value \notin {"swipe_right", "swipe_left"}

\* an upward swipe with a smaller horizontal drift, over a window of three
C10_Witness ==
    /\ SwipeFull /\ gd_buffer_size = 3
    /\ Dy < -Threshold /\ Dx # 0 /\ Abs(Dx) < Abs(Dy)
    /\ ret.value = "swipe_up"

\* C11: SwipeGestureDetector.process_hand returns no gesture for a label as
\* long as fewer than buffer_size wrist samples were pushed for that label,
\* however far apart the samples are and whatever was pushed for the other
\* label.
C11_NoGestureBeforeFull ==
    (op = "gd_process_hand" /\ Len(CallsFor(ret.label)) < gd_buffer_size)
        => ret.value = None

\* the label's second sample of a window of three, far from its first one,
\* after the other label has filled its window and produced a swipe
C11_Witness ==
    /\ op = "gd_process_hand" /\ gd_buffer_size = 3
    /\ Len(CallsFor(ret.label)) = 2
    /\ Abs(WristOf(CallsFor(ret.label)[2])[1] - WristOf(CallsFor(ret.label)[1])[1]) > Threshold
    /\ \E l \in HandLabel \ {ret.label} :
          /\ Len(CallsFor(l)) >= 3
          /\ \E k \in 1 .. Len(CallsFor(l)) : CallsFor(l)[k].value # None
    /\ ret.value = None

\* C12: with buffer size 5, one hand labelled Right and the wrist at rest,
\* raw vector (1,1,1,1,1) on frames 1-5 and (0,0,0,0,0) on frames 6-10 give
\* stable vector (1,1,1,1,1) on frames 1-5 and (0,0,0,0,0) at frame 10;
\* exactly one of frames 6-10 has any_change true, and a sink that is not
\* always-consuming receives exactly one of the events of frames 6-10.
C12_PalmThenFist ==
    PalmThenFist
        => /\ \A k \in 1 .. 5 : Stable(k) = Open
           /\ Stable(10) = Fist
           /\ Cardinality({k \in 6 .. 10 : log[k].any_change}) = 1
           /\ \A i \in Sinks :
                 ~always_consume(consumers[i])
                     => Cardinality({k \in 6 .. 10 : i \in Range(log[k].consumed)}) = 1

\* the ten frames were fed and the change came with the third fist
C12_Witness ==
    /\ PalmThenFist
    /\ fd_buffer_size = 5
    /\ log[8].any_change /\ Stable(7) = Open /\ Stable(8) = Fist
    /\ \E i \in Sinks : ~always_consume(consumers[i]) /\ i \in Range(log[8].consumed)

\* C13: with a stride of N frames the engine selects frames by a counter
\* modulo N and drops every other frame before detection: the frames that
\* push histories, change the Last-Known State or reach a sink are a
\* multiple of N frames apart.
C13_FrameSkip ==
    \A j, k \in 1 .. Len(log) :
        (Detected(j) /\ Detected(k)) => (k - j) % frame_skip = 0

\* C14: a buffer size below 1 or a negative gesture threshold is rejected
\* when the detectors are constructed: no frame is ever processed under
\* such a configuration, so it cannot fail or misbehave during processing.
C14_InvalidRejected ==
    (fd_buffer_size < 1 \/ gd_buffer_size < 1 \/ gd_threshold < 0) => op = "init"

\* C15: the gesture namer returns a name for each of the 32 finger vectors:
\* the mapped name for a vector of the static gesture table, and the string
\* "<k> fingers" for every other vector, k the number of its extended
\* fingers.
C15_NamerTotal ==
    op = "classify_gesture"
        => /\ ret.landmarks \in FingerVectors
           /\ ret.value \in STRING
           /\ ret.landmarks \in DOMAIN gesture_map => ret.value = gesture_map[ret.landmarks]
           /\ ret.landmarks \notin DOMAIN gesture_map
                 => ret.value = ToString(Popcount(ret.landmarks)) \o " fingers"

\* a vector of the table was named, then one outside it with three fingers up
C15_Witness ==
    /\ op = "classify_gesture" /\ Len(log) = 2
    /\ log[1].landmarks = <<1, 0, 0, 0, 1>> /\ log[1].value = "Shaka Sign"
    /\ ret.landmarks = <<1, 0, 1, 0, 1>> /\ ret.value = "3 fingers"

\* C16: HandEvent.to_dict gives one entry per hand, in event order, with
\* the keys label ('left' or 'right'), fingers and gesture; reading it back
\* gives the label, the five-element finger vector and the gesture of every
\* hand exactly; two events that differ in a hand's label, finger vector or
\* gesture serialize differently.
C16_RoundTrip ==
    op = "to_dict"
        => /\ DOMAIN ret.value = {"hands"}
           /\ Len(ret.value.hands) = Len(ret.landmarks)
           /\ \A k \in 1 .. Len(ret.value.hands) :
                 /\ DOMAIN ret.value.hands[k] = {"label", "fingers", "gesture"}
                 /\ ret.value.hands[k].label \in {"left", "right"}
                 /\ Len(ret.value.hands[k].fingers) = 5
           /\ ReadBack(ret.value) = Triples(ret.landmarks)
           /\ \A j \in 1 .. Len(log) :
                 Triples(log[j].landmarks) # Triples(ret.landmarks)
                     => log[j].value # ret.value

\* two events of two hands that differ in the gesture of the second hand only
C16_Witness ==
    /\ op = "to_dict" /\ Len(log) = 2
    /\ Len(log[1].landmarks) = 2 /\ Len(log[2].landmarks) = 2
    /\ log[1].landmarks[1] = log[2].landmarks[1]
    /\ log[1].landmarks[1].label = "Left"
    /\ log[1].landmarks[2].label = log[2].landmarks[2].label
    /\ log[1].landmarks[2].stable_fingers = log[2].landmarks[2].stable_fingers
    /\ log[1].landmarks[2].gesture = None /\ log[2].landmarks[2].gesture = "swipe_left"
    /\ log[1].value # log[2].value

\* C17: a frame for which the landmark source reports no hands leaves the
\* finger-vector histories, the wrist-position histories and the Last-Known
\* State of both labels as they were.
C17_NoHandsNoMutation ==
    [][(op' = "process_frame" /\ hands_data' = <<>>)
          => UNCHANGED <<fd_history, gd_history, last_hand>>]_vars

\* an empty frame was processed while both labels have histories and a
\* Last-Known State
C17_Witness ==
    /\ op = "process_frame" /\ hands_data = <<>>
    /\ \A l \in HandLabel :
          fd_history[l] # <<>> /\ gd_history[l] # <<>> /\ last_hand[l] # NoHand

\* C18: a frame in which a label is not detected leaves that label's
\* Last-Known State, finger-vector history and wrist-position history as
\* they were: only the labels present in the frame have their state modified.
C18_AbsentLabelUntouched ==
    [][op' = "process_frame"
          => \A l \in HandLabel \ LabelsOf(hands_data') :
                /\ last_hand'[l] = last_hand[l]
                /\ fd_history'[l] = fd_history[l]
                /\ gd_history'[l] = gd_history[l]]_vars

\* a frame with right hands only was processed while the left hand has a
\* history and a Last-Known State
C18_Witness ==
    /\ FrameProcessed /\ LabelsOf(hands_data) = {"Right"}
    /\ fd_history["Left"] # <<>> /\ gd_history["Left"] # <<>>
    /\ last_hand["Left"] # NoHand
    /\ Len(fd_history["Right"]) > Len(fd_history["Left"])

\* C19: after a frame with at least one hand, the Last-Known State of every
\* label present equals the (stable_fingers, gesture) pair of that label's
\* HandState in the event (of the last one, when the event carries the label
\* more than once), whether or not the pair changed and whether or not any
\* sink received the event.
C19_LastHandUpdated ==
    FrameProcessed
        => /\ LabelsOf(hands_data) = {hand_event[k].label : k \in 1 .. Len(hand_event)}
           /\ \A l \in LabelsOf(hands_data) :
                 last_hand[l] = PairOf(LatestOf(hand_event, l))

\* nothing changed and no sink received the event
C19_Witness ==
    /\ FrameProcessed /\ ~any_change /\ consumed = <<>> /\ Len(consumers) > 0
    /\ \A l \in LabelsOf(hands_data) : last_hand[l] = PairOf(LatestOf(hand_event, l))

\* C20: on a frame with hands, the sinks the dispatch rule selects have
\* consume called one after the other in registration order, each with the
\* event of the frame, while the frame is processed: the calls skip no
\* selected sink and stop only where a consume raises.
C20_RegistrationOrder ==
    FrameProcessed
        => /\ \A j, k \in 1 .. Len(consumed) : j < k => consumed[j] < consumed[k]
           /\ \A k \in 1 .. Len(consumed) : consumed[k] \in Sinks /\ Wanted(consumed[k])
           /\ \A i \in Sinks : (Wanted(i) /\ ~Got(i)) => (raised # 0 /\ raised < i)
           /\ hand_event # <<>>

\* two sinks received the event, the window first
C20_Witness ==
    /\ FrameProcessed /\ consumed = <<1, 2>> /\ raised = 0
    /\ always_consume(consumers[1]) /\ ~always_consume(consumers[2])

\* C21: with a buffer_size of at least 3, when a label's buffer is full of
\* one vector v and a single different vector w is pushed, followed by
\* further pushes of v, the stable vector returned is v on the push of w and
\* on every push after it (each of those pushes is the latest call of some
\* reachable state).
C21_Debounce ==
    (op = "fd_process_hand" /\ fd_buffer_size >= 3)
        => \A m \in 1 .. Len(log) : Misread(m) => ret.value = RawOf(m - 1)

\* a buffer of five open hands, one fist, then five open hands: the fist
\* has entered the window and left it again
C21_Witness ==
    /\ op = "fd_process_hand" /\ fd_buffer_size = 5 /\ Len(log) = 11
    /\ Misread(6)
    /\ RawOf(6) = Fist /\ RawOf(5) = Open
    /\ Range(FdBuffer) = {Open}
    /\ ret.value = Open

\* C22: after any sequence of pushes, the finger-vector history and the
\* wrist-position history of a label hold exactly the most recent
\* min(k, buffer_size) values pushed for that label, k the number of its
\* pushes, in arrival order: each push past capacity evicts the oldest.
C22_SlidingWindow ==
    \A l \in HandLabel :
        /\ fd_history[l] = LastN(PushedFingers(l), fd_buffer_size)
        /\ gd_history[l] = LastN(PushedWrists(l), gd_buffer_size)

\* a window of two after three wrist pushes for a label, the three not all
\* alike, the other label pushed in between
C22_Witness ==
    /\ gd_buffer_size = 2 /\ Len(log) = 4
    /\ Len(PushedWrists("Right")) = 3
    /\ PushedWrists("Right")[1] # PushedWrists("Right")[2]
    /\ PushedWrists("Right")[2] # PushedWrists("Right")[3]
    /\ gd_history["Right"] = <<PushedWrists("Right")[2], PushedWrists("Right")[3]>>
    /\ log[2].label = "Left"

\* C23: once a frame containing a label has set its Last-Known State, the
\* state is never absent again, whatever frames follow, empty ones and ones
\* without the label included; so a hand is compared with an absent state
\* only in the first frame that contains its label.
C23_NeverReset ==
    [][\A l \in HandLabel :
          /\ last_hand[l] # NoHand => last_hand'[l] # NoHand
          /\ (op' = "process_frame" /\ l \in LabelsOf(hands_data')) => last_hand'[l] # NoHand
          /\ (op' = "process_frame" /\ l \in LabelsOf(hands_data') /\ last_hand[l] = NoHand)
                => (fd_history[l] = <<>> /\ gd_history[l] = <<>>)]_vars

\* a frame with a left hand only was processed after the right hand's
\* window filled, and the right hand still has its Last-Known State
C23_Witness ==
    /\ FrameProcessed /\ LabelsOf(hands_data) = {"Left"}
    /\ Len(fd_history["Right"]) = fd_buffer_size
    /\ last_hand["Right"] # NoHand /\ last_hand["Left"] # NoHand
    /\ ~any_change

====
